---------------------------- MODULE Spec2Model ----------------------------
(***************************************************************************)
(* A model of the GDScript formatter's post-processing pipeline            *)
(* (src/src/formatter.rs) and of its daemon loop (src/src/main.rs).        *)
(*                                                                         *)
(* The Buffer is a sequence of one-character strings.  Every character     *)
(* stands for one byte, so byte offsets are 0-based indexes into the       *)
(* sequence exactly as in the source; Byte(s, i) reads offset i.           *)
(*                                                                         *)
(* The tree-sitter parser, the Topiary formatting pass and the reorder     *)
(* pass are collaborators whose code is not part of formatter.rs.  The     *)
(* parser is modelled by Parse, a deterministic parser of a small grammar  *)
(* with the node kinds the formatter looks at (string, comment, the        *)
(* declaration kinds); the two passes are modelled as a nondeterministic   *)
(* choice of their result.                                                 *)
(***************************************************************************)
EXTENDS Integers, Sequences, FiniteSets, TLC

VARIABLES
    content,      \* Formatter::content, the Buffer
    input_tree,   \* Formatter::input_tree, the baseline tree
    tree,         \* Formatter::tree, the working tree
    config,       \* FormatterConfig: [safe, reorder_code]
    pc,           \* position of the request / of the daemon loop
    result,       \* what the operation under way has returned
    input,        \* the text handed to Formatter::format
    before,       \* the Buffer as it was when the current stage started
    re,           \* the pattern of the current rewriter pass
    edits,        \* the Edit Records of the last rewriter or Spacer pass
    conns,        \* connections the daemon has accepted
    stream,       \* the accepted connection: request read and response written
    stderr        \* the warnings written with eprintln!

vars == <<content, input_tree, tree, config, pc, result, input, before, re,
          edits, conns, stream, stderr>>

----------------------------------------------------------------------------
(* Bounds of the model.                                                    *)

\* most nodes of a tree handed to the comparator on its own
MaxCmpNodes == 4
\* widest padding between the nodes of such a tree
MaxPad == 1
\* longest Buffer handed to the Declaration Spacer on its own
MaxSpacerLen == 6
\* longest Buffer handed to a rewriter pass on its own
MaxRewriteLen == 6
\* most lines of a text handed to Formatter::format
MaxInputLines == 2
\* most lines of a text the formatting pass returns
MaxFormattedLines == 2
\* most connections the daemon accepts
MaxConns == 2
\* most lines of the payload of a request to the daemon
MaxRequestLines == 1
\* most warnings kept of those a reused Formatter writes
MaxWarnings == 2
\* the highest value of the limb above 2^32 of a payload's byte count
MaxHighLimb == 1

----------------------------------------------------------------------------
(* Text and points.                                                        *)

NL == "\n"
QUOTE == "\""
Whitespace == {" ", NL}

Byte(s, i) == s[i + 1]

\* s[from..to) in byte offsets
Slice(s, from, to) == SubSeq(s, from + 1, to)

Min(a, b) == IF a < b THEN a ELSE b

\* the least and the greatest number of a non-empty set
Minimum(S) == CHOOSE x \in S : \A y \in S : x <= y
Maximum(S) == CHOOSE x \in S : \A y \in S : y <= x

\* the least number of S, or none when S is empty
MinimumOr(S, none) == IF S = {} THEN none ELSE Minimum(S)

Point(row, column) == [row |-> row, column |-> column]

\* tree_sitter::Point of byte offset i in text s
PointAt(s, i) ==
    LET nls == {k \in 1..i : s[k] = NL}
        last == IF nls = {} THEN 0 ELSE CHOOSE k \in nls : \A j \in nls : j <= k
    IN Point(Cardinality(nls), i - last)

\* smallest offset j >= i with Byte(s, j) = c, or Len(s) when there is none
FindFrom(s, i, c) ==
    MinimumOr({j \in i..(Len(s) - 1) : Byte(s, j) = c}, Len(s))

\* first offset at or after i that holds no byte of set cs (Len(s) when none)
SkipSet(s, i, cs) ==
    MinimumOr({j \in i..(Len(s) - 1) : Byte(s, j) \notin cs}, Len(s))

\* first offset at or after i that holds no whitespace (Len(s) when none)
SkipWs(s, i) == SkipSet(s, i, Whitespace)

RECURSIVE Concat(_)
Concat(ss) == IF ss = <<>> THEN <<>> ELSE Head(ss) \o Concat(Tail(ss))

\* all sequences over alphabet of length exactly n / at most n
SeqsOfLen(alphabet, n) == [1..n -> alphabet]
SeqsUpTo(alphabet, n) == UNION {SeqsOfLen(alphabet, k) : k \in 0..n}

----------------------------------------------------------------------------
(* Syntax trees.  A node carries what tree_sitter::Node exposes to the     *)
(* formatter: kind (also its grammar id), byte range, point range and      *)
(* children.                                                               *)

Node(kind, s, e, sp, ep, children) ==
    [kind |-> kind, start_byte |-> s, end_byte |-> e,
     start_position |-> sp, end_position |-> ep, children |-> children]

child_count(node) == Len(node.children)

grammar_id(node) == node.kind

\* a node of text s without children
Leaf(s, kind, from, to) ==
    Node(kind, from, to, PointAt(s, from), PointAt(s, to), <<>>)

\* the kind of a one-byte token inside a statement
KindOfByte(c) == IF c \in {",", "(", ")"} THEN c ELSE "identifier"

\* anonymous nodes are the punctuation tokens
IsNamed(node) == node.kind \notin {",", "(", ")", ";"}

StatementEnd == {NL, "#", ";"}
Keywords == {"f", "v", "e"}

\* The tokens of one statement from offset j on: they end at a line break, a
\* comment or a semicolon.  A string runs from a quote to the next quote, over
\* line breaks too; an unterminated one is an ERROR node to the end of text.
RECURSIVE StatementTokens(_, _)

\* a token and the tokens after it
TokensFrom(s, token) == <<token>> \o StatementTokens(s, token.end_byte)

\* the token of the quote at offset j, k the offset of the next quote
StringToken(s, j, k) ==
    IF k < Len(s) THEN Leaf(s, "string", j, k + 1)
    ELSE Leaf(s, "ERROR", j, Len(s))

StatementTokens(s, j) ==
    IF j >= Len(s) THEN <<>>
    ELSE CASE Byte(s, j) \in StatementEnd -> <<>>
           [] Byte(s, j) = " " -> StatementTokens(s, j + 1)
           [] Byte(s, j) = QUOTE ->
                TokensFrom(s, StringToken(s, j, FindFrom(s, j + 1, QUOTE)))
           [] OTHER -> TokensFrom(s, Leaf(s, KindOfByte(Byte(s, j)), j, j + 1))

StatementKind(head) ==
    CASE head = "f" -> "function_definition"
      [] head = "v" -> "variable_statement"
      [] head = "e" -> "extends_statement"
      [] OTHER -> "expression_statement"

\* a statement ends with its last token: trailing whitespace is not part of it
StatementEndByte(i, tokens) ==
    IF tokens = <<>> THEN i + 1 ELSE tokens[Len(tokens)].end_byte

StatementNode(s, kind, from, to, tokens) ==
    Node(kind, from, to, PointAt(s, from), PointAt(s, to), tokens)

StatementOf(s, kind, i, tokens) ==
    StatementNode(s, kind, i, StatementEndByte(i, tokens), tokens)

\* The statement that starts at offset i: a declaration when its first byte
\* is a keyword (the tokens after the keyword are its children), an
\* expression statement otherwise (all its tokens are its children).
Statement(s, i) ==
    StatementOf(s, StatementKind(Byte(s, i)), i,
                StatementTokens(s, IF Byte(s, i) \in Keywords THEN i + 1 ELSE i))

\* The nodes of text s from offset i on, left to right.  Whitespace makes no
\* node; a comment runs to the end of its line; a semicolon is a node of its
\* own; anything else starts a statement.
RECURSIVE ParseItems(_, _)

\* a node and the nodes after it
ItemsFrom(s, node) == <<node>> \o ParseItems(s, node.end_byte)

ParseItems(s, i) ==
    IF i >= Len(s) THEN <<>>
    ELSE CASE Byte(s, i) \in Whitespace -> ParseItems(s, i + 1)
           [] Byte(s, i) = "#" ->
                ItemsFrom(s, Leaf(s, "comment", i, FindFrom(s, i, NL)))
           [] Byte(s, i) = ";" -> ItemsFrom(s, Leaf(s, ";", i, i + 1))
           [] OTHER -> ItemsFrom(s, Statement(s, i))

\* Parser::parse(text, None)
Parse(s) ==
    Node("source", 0, Len(s), Point(0, 0), PointAt(s, Len(s)), ParseItems(s, 0))

\* Parser::parse(text, Some(old_tree)): the incremental parse, which yields
\* the tree of the text it is given.
Reparse(s, old_tree) == Parse(s)

\* the paths (sequences of child indexes) of the nodes of a tree
RECURSIVE Paths(_)
Paths(node) ==
    {<<>>} \cup UNION {{<<k>> \o p : p \in Paths(node.children[k])} :
                        k \in 1..Len(node.children)}

RECURSIVE NodeAt(_, _)
NodeAt(node, path) ==
    IF path = <<>> THEN node ELSE NodeAt(node.children[Head(path)], Tail(path))

\* same child count at every position
SameShape(l, r) == Paths(l) = Paths(r)

\* same shape, and the same kind at every position below the roots
SameStructure(l, r) ==
    /\ SameShape(l, r)
    /\ \A p \in Paths(l) : p # <<>> => NodeAt(l, p).kind = NodeAt(r, p).kind

----------------------------------------------------------------------------
(* The Tree Comparator.                                                    *)

\* formatter.rs line 477: the children zipped with the left node's children
\* are read from left_current_node, through the right tree's cursor.
RightChildren(left_current_node, right_current_node) ==
    left_current_node.children

\* A slip in the test of line 466: the comparison inverted.
ChildCountsEqual(left_current_node, right_current_node) ==
    child_count(left_current_node) = child_count(right_current_node)

\* formatter.rs line 466
ChildCountsDiffer(left_current_node, right_current_node) ==
    child_count(left_current_node) # child_count(right_current_node)

Last(stack) == stack[Len(stack)]
Pop(stack) == SubSeq(stack, 1, Len(stack) - 1)

\* The loop of compare_trees from the two stacks on.
RECURSIVE CompareLoop(_, _)
CompareLoop(left_stack, right_stack) ==
    IF left_stack = <<>> \/ right_stack = <<>> THEN TRUE
    ELSE LET left_current_node == Last(left_stack)
             right_current_node == Last(right_stack)
             left_children == left_current_node.children
             right_children == RightChildren(left_current_node, right_current_node)
             zipped == Min(Len(left_children), Len(right_children))
         IN IF ChildCountsDiffer(left_current_node, right_current_node)
            THEN FALSE
            ELSE IF \E k \in 1..zipped :
                      grammar_id(left_children[k]) # grammar_id(right_children[k])
            THEN FALSE
            ELSE CompareLoop(Pop(left_stack) \o SubSeq(left_children, 1, zipped),
                             Pop(right_stack) \o SubSeq(right_children, 1, zipped))

compare_trees(left_tree, right_tree) == CompareLoop(<<left_tree>>, <<right_tree>>)

----------------------------------------------------------------------------
(* Tree queries and tree edits (tree-sitter).                              *)

\* Node::descendant_for_byte_range(b, b): the smallest node that covers
\* byte b, the node itself when no child does.
RECURSIVE descendant_for_byte_range(_, _)
descendant_for_byte_range(node, b) ==
    LET cs == node.children
        cands == {k \in 1..Len(cs) : cs[k].end_byte > b}
        k == CHOOSE c \in cands : \A d \in cands : c <= d
    IN IF cands = {} THEN node
       ELSE IF b < cs[k].start_byte THEN node
       ELSE descendant_for_byte_range(cs[k], b)

InputEdit(start_byte, old_end_byte, new_end_byte, start_position, old_end_position, new_end_position) ==
    [start_byte |-> start_byte, old_end_byte |-> old_end_byte,
     new_end_byte |-> new_end_byte, start_position |-> start_position,
     old_end_position |-> old_end_position,
     new_end_position |-> new_end_position]

point_add(a, b) ==
    IF b.row > 0 THEN Point(a.row + b.row, b.column)
    ELSE Point(a.row, a.column + b.column)

point_sub(a, b) ==
    IF a.row > b.row THEN Point(a.row - b.row, a.column)
    ELSE Point(0, IF a.column > b.column THEN a.column - b.column ELSE 0)

\* where an edit moves a byte offset and its point: what lies at or after the
\* old end is shifted, what lies inside the replaced span goes to the new end
EditByte(x, edit) ==
    IF x >= edit.old_end_byte THEN edit.new_end_byte + (x - edit.old_end_byte)
    ELSE IF x > edit.start_byte THEN edit.new_end_byte
    ELSE x

EditPoint(x, pt, edit) ==
    IF x >= edit.old_end_byte
    THEN point_add(edit.new_end_position, point_sub(pt, edit.old_end_position))
    ELSE IF x > edit.start_byte THEN edit.new_end_position
    ELSE pt

\* Tree::edit
RECURSIVE Edit(_, _)
Edit(node, edit) ==
    Node(node.kind,
         EditByte(node.start_byte, edit), EditByte(node.end_byte, edit),
         EditPoint(node.start_byte, node.start_position, edit),
         EditPoint(node.end_byte, node.end_position, edit),
         [k \in 1..Len(node.children) |-> Edit(node.children[k], edit)])

RECURSIVE EditAll(_, _)
EditAll(node, es) ==
    IF es = <<>> THEN node ELSE EditAll(Edit(node, Head(es)), Tail(es))

----------------------------------------------------------------------------
(* The Declaration Spacer.                                                 *)

CommentKinds == {"comment", "annotation"}
Query1First == {"variable_statement", "function_definition", "class_definition",
                "signal_statement", "const_statement", "enum_definition",
                "constructor_definition"}
Query1Second == {"function_definition", "constructor_definition", "class_definition"}
Query2First == {"constructor_definition", "function_definition", "class_definition"}
Query2Second == {"variable_statement", "signal_statement", "const_statement",
                 "enum_definition"}

\* The captures of the match of a query that starts at sibling i of cs, <<>>
\* when there is none.  Query 1: @first, every comment or annotation that
\* follows it at once, each one a @comment capture, then @second.  Query 2:
\* @first and, right after it, @second.
QueryCaptures(query, cs, i) ==
    IF query = 1
    THEN LET rest == {j \in (i + 1)..Len(cs) : cs[j].kind \notin CommentKinds}
             j == CHOOSE c \in rest : \A d \in rest : c <= d
         IN IF cs[i].kind \in Query1First /\ rest # {} /\ cs[j].kind \in Query1Second
            THEN SubSeq(cs, i, j) ELSE <<>>
    ELSE IF /\ cs[i].kind \in Query2First
            /\ i + 1 <= Len(cs)
            /\ cs[i + 1].kind \in Query2Second
         THEN <<cs[i], cs[i + 1]>> ELSE <<>>

\* QueryCursor::matches: the matches of a query in a tree, each one the
\* sequence of its captures.  Anchored siblings are named nodes.
RECURSIVE QueryMatches(_, _)
QueryMatches(query, node) ==
    LET cs == SelectSeq(node.children, IsNamed)
        here == [i \in 1..Len(cs) |->
                   IF QueryCaptures(query, cs, i) = <<>> THEN <<>>
                   ELSE <<QueryCaptures(query, cs, i)>>]
        below == [k \in 1..Len(node.children) |->
                    QueryMatches(query, node.children[k])]
    IN Concat(here) \o Concat(below)

\* A slip at line 321: the walk looks for a byte the Buffer does not hold
\* and runs off its start.
WalkBackPastStart(text, idx) == -1

\* lines 318-323: the offset of the line break at or before idx; -1 when the
\* walk runs off the start of the Buffer
WalkBack(text, idx) ==
    LET hits == {j \in 0..Min(idx, Len(text) - 1) : Byte(text, j) = NL}
    IN IF idx >= Len(text) \/ hits = {} THEN -1
       ELSE CHOOSE j \in hits : \A k \in hits : k <= j

\* The comment of a three-capture match starts on the row of @first: the
\* blank lines go before @second.
CommentOnFirstLine(captures) ==
    /\ Len(captures) = 3
    /\ captures[2].start_position.row = captures[1].start_position.row

\* lines 310-332: the insertion point of one match
InsertionPoint(text, captures) ==
    LET first_node == captures[1]
        second_node == captures[3]
    IN IF CommentOnFirstLine(captures)
       THEN [byte_idx |-> WalkBack(text, second_node.start_byte),
             position |-> Point(second_node.start_position.row, 0)]
       ELSE [byte_idx |-> first_node.end_byte,
             position |-> first_node.end_position]

\* lines 339-343: the insertion points of the two queries, in match order
CollectNewLines(text, root) ==
    LET ms == QueryMatches(1, root) \o QueryMatches(2, root)
    IN [k \in 1..Len(ms) |-> InsertionPoint(text, ms[k])]

\* the order of (usize, Point) tuples
TupleLess(a, b) ==
    \/ a.byte_idx < b.byte_idx
    \/ /\ a.byte_idx = b.byte_idx
       /\ \/ a.position.row < b.position.row
          \/ /\ a.position.row = b.position.row
             /\ a.position.column < b.position.column

\* A slip at line 347: the points are left in the order of the matches.
MatchOrder(points) == points

\* line 347: sort_by(|a, b| b.cmp(a)), largest first
RECURSIVE SortDescending(_)
SortDescending(points) ==
    IF points = <<>> THEN <<>>
    ELSE LET k == CHOOSE i \in 1..Len(points) :
                    \A j \in 1..Len(points) : ~TupleLess(points[i], points[j])
         IN <<points[k]>> \o
            SortDescending(SubSeq(points, 1, k - 1) \o
                           SubSeq(points, k + 1, Len(points)))

\* String::insert(idx, ch)
InsertAt(text, idx, ch) ==
    SubSeq(text, 1, idx) \o <<ch>> \o SubSeq(text, idx + 1, Len(text))

\* A slip in line 353: the byte at the insertion point is probed.
NeedsSecondLineAtPoint(text, byte_idx) == Byte(text, byte_idx) # NL

\* A slip in line 353: the probe dropped, two line breaks always inserted.
NeedsSecondLineAlways(text, byte_idx) == TRUE

\* line 353: the byte after the insertion point is no line break
NeedsSecondLine(text, byte_idx) == Byte(text, byte_idx + 1) # NL

\* lines 349-373: one insertion, on the state [content, tree, edits, panic]
InsertNewLines(st, point) ==
    LET byte_idx == point.byte_idx
        position == point.position
    IN IF st.panic \/ byte_idx < 0 \/ byte_idx + 1 >= Len(st.content)
       THEN [st EXCEPT !.panic = TRUE]
       ELSE LET n == IF NeedsSecondLine(st.content, byte_idx) THEN 2 ELSE 1
                text1 == IF n = 2 THEN InsertAt(st.content, byte_idx, NL)
                         ELSE st.content
                text2 == InsertAt(text1, byte_idx, NL)
                edit == InputEdit(byte_idx, byte_idx, byte_idx + n,
                                  position, position,
                                  Point(position.row + n, position.column))
            IN [content |-> text2, tree |-> Edit(st.tree, edit),
                edits |-> Append(st.edits, edit), panic |-> FALSE]

RECURSIVE ApplyNewLines(_, _)
ApplyNewLines(st, points) ==
    IF points = <<>> THEN st
    ELSE ApplyNewLines(InsertNewLines(st, Head(points)), Tail(points))

\* Formatter::handle_two_blank_line on a Buffer and its Tree
handle_two_blank_line(text, root) ==
    ApplyNewLines([content |-> text, tree |-> root, edits |-> <<>>, panic |-> FALSE],
                  SortDescending(CollectNewLines(text, root)))

----------------------------------------------------------------------------
(* The patterns of the rewriter passes.  A match is [start, end, rep]: its *)
(* byte range and its replacement, the template expanded with the match's  *)
(* capture groups.  In the Buffer "e" stands for the keyword `extends `     *)
(* with its blank and "p" for the word `preload`.                          *)

NoMatch == [start |-> -1, end |-> -1, rep |-> <<>>]

Alnum == {"x", "f", "v", "p"}

\* multi-line `^` and `$`
AtLineStart(s, i) == i = 0 \/ Byte(s, i - 1) = NL
AtLineEnd(s, i) == i = Len(s) \/ Byte(s, i) = NL

\* a match of [start, end) when end is an offset, NoMatch when it is -1
MatchTo(start, end, replacement) ==
    IF end = -1 THEN NoMatch
    ELSE [start |-> start, end |-> end, rep |-> replacement]

\* line 181, `(\s*;)+$`: the end of the longest run of groups `\s*;` from i
\* that stops at the end of a line, -1 when there is none
RECURSIVE SemicolonsEnd(_, _)

\* a group ends at g; longer is the end of the run with more groups after it
SemicolonsAfter(s, g, longer) ==
    IF longer # -1 THEN longer
    ELSE IF AtLineEnd(s, g) THEN g
    ELSE -1

\* the group whose semicolon is looked for at offset j
SemicolonsGroup(s, j) ==
    IF j < Len(s) /\ Byte(s, j) = ";"
    THEN SemicolonsAfter(s, j + 1, SemicolonsEnd(s, j + 1))
    ELSE -1

SemicolonsEnd(s, i) == SemicolonsGroup(s, SkipWs(s, i))

\* lines 181 and 186: replaced by ""
SemicolonsMatch(s, i) == MatchTo(i, SemicolonsEnd(s, i), <<>>)

\* lines 199 and 204, `([^\n\r])\n\s+,` replaced by "$1,"
CommasMatch(s, i) ==
    LET j == SkipWs(s, i + 2)
    IN IF /\ i + 1 < Len(s)
          /\ Byte(s, i) # NL
          /\ Byte(s, i + 1) = NL
          /\ j > i + 2
          /\ j < Len(s)
          /\ Byte(s, j) = ","
       THEN [start |-> i, end |-> j + 1, rep |-> <<Byte(s, i), ",">>]
       ELSE NoMatch

\* the commas of (j, k) with nothing but whitespace between them and k
PreloadCommas(s, j, k) ==
    {m \in (j + 1)..(k - 1) :
        /\ Byte(s, m) = ","
        /\ \A n \in (m + 1)..(k - 1) : Byte(s, n) \in Whitespace}

\* "preload($1$2)": what lies between the parentheses j and k, less comma m
PreloadReplacement(s, j, m, k) ==
    <<"p", "(">> \o Slice(s, j + 1, m) \o Slice(s, m + 1, k) \o <<")">>

PreloadWithout(s, i, j, k, commas) ==
    IF /\ Byte(s, i) = "p"
       /\ j < Len(s)
       /\ Byte(s, j) = "("
       /\ k < Len(s)
       /\ commas # {}
    THEN [start |-> i, end |-> k + 1,
          rep |-> PreloadReplacement(s, j, Maximum(commas), k)]
    ELSE NoMatch

PreloadClosedAt(s, i, j, k) == PreloadWithout(s, i, j, k, PreloadCommas(s, j, k))

PreloadOpenedAt(s, i, j) == PreloadClosedAt(s, i, j, FindFrom(s, j + 1, ")"))

\* lines 213 and 217, `preload\s*\(([^)]*),(\s*)\)` replaced by
\* "preload($1$2)": the last comma before the first closing parenthesis,
\* with nothing but whitespace between the two
PreloadMatch(s, i) == PreloadOpenedAt(s, i, SkipWs(s, i + 1))

\* The end of the name `([a-zA-Z0-9]+|".*?")` at offset n that a line break
\* follows, -1 when there is none: a run of letters, or a quote up to the
\* first later quote of the line that ends the line.
ExtendsNameEnd(s, n) ==
    LET k == SkipSet(s, n, Alnum)
        quotes == {q \in (n + 1)..(Len(s) - 2) :
                     /\ Byte(s, q) = QUOTE
                     /\ Byte(s, q + 1) = NL
                     /\ \A m \in (n + 1)..(q - 1) : Byte(s, m) # NL}
    IN IF n >= Len(s) THEN -1
       ELSE IF Byte(s, n) \in Alnum
       THEN IF k < Len(s) /\ Byte(s, k) = NL THEN k ELSE -1
       ELSE IF Byte(s, n) = QUOTE /\ quotes # {}
       THEN 1 + CHOOSE q \in quotes : \A r \in quotes : q <= r
       ELSE -1

\* the offsets of [i, stop) that hold an `extends ` with a name after it
ExtendsHeads(s, i, stop) ==
    {j \in i..(stop - 1) : Byte(s, j) = "e" /\ ExtendsNameEnd(s, j + 1) # -1}

\* the match of the line from i whose name ends at ne
ExtendsLine(s, i, ne) ==
    [start |-> i, end |-> SkipSet(s, ne, {NL}), rep |-> Slice(s, i, ne) \o <<NL>>]

ExtendsLast(s, i, heads) ==
    IF AtLineStart(s, i) /\ heads # {}
    THEN ExtendsLine(s, i, ExtendsNameEnd(s, Maximum(heads) + 1))
    ELSE NoMatch

\* lines 163-170, `(?P<extends_line>^[^#\n]*extends )(?P<extends_name>...)\n(\n*)`
\* replaced by "$extends_line$extends_name\n": from the start of a line, the
\* last `extends ` of the line that a name and a line break follow, and every
\* line break after it
ExtendsMatch(s, i) ==
    ExtendsLast(s, i,
        ExtendsHeads(s, i, Min(FindFrom(s, i, "#"), FindFrom(s, i, NL))))

Patterns == {"extends", "semicolons", "commas", "preload"}

\* the match of a pattern that starts at offset i, NoMatch when none does
MatchAt(pattern, s, i) ==
    CASE pattern = "extends" -> ExtendsMatch(s, i)
      [] pattern = "semicolons" -> SemicolonsMatch(s, i)
      [] pattern = "commas" -> CommasMatch(s, i)
      [] pattern = "preload" -> PreloadMatch(s, i)

\* Regex::captures_iter: the non-overlapping matches from offset pos on, each
\* the leftmost one after the match before it
RECURSIVE captures_iter(_, _, _)

\* a match and the matches after it
MatchesFrom(pattern, s, m) == <<m>> \o captures_iter(pattern, s, m.end)

\* the matches from the least of the offsets where one starts
MatchesAt(pattern, s, starts) ==
    IF starts = {} THEN <<>>
    ELSE MatchesFrom(pattern, s, MatchAt(pattern, s, Minimum(starts)))

captures_iter(pattern, s, pos) ==
    MatchesAt(pattern, s,
              {i \in pos..(Len(s) - 1) : MatchAt(pattern, s, i) # NoMatch})

----------------------------------------------------------------------------
(* The String-Aware Rewriter.                                              *)

\* A slip in lines 443-448: a line feed is counted as one more column.
ColumnsOnly(start, slice) == Point(start.row, start.column + Len(slice))

\* calculate_end_position
RECURSIVE calculate_end_position(_, _)
calculate_end_position(start, slice) ==
    IF slice = <<>> THEN start
    ELSE calculate_end_position(
             IF Head(slice) = NL THEN Point(start.row + 1, 0)
             ELSE Point(start.row, start.column + 1),
             Tail(slice))

\* line 255: the match is skipped when the smallest node that covers its
\* first byte is a string
StartsInString(root, m) ==
    descendant_for_byte_range(root, m.start).kind = "string"

\* lines 246-283: the loop over the matches, on the state
\* [new, last_match, start_position, edits]; text and root are the unmodified
\* Buffer and the Tree
RECURSIVE ReplaceLoop(_, _, _, _)
ReplaceLoop(text, root, ms, st) ==
    IF ms = <<>> THEN st
    ELSE LET m == Head(ms)
             start_byte == m.start
             old_end_byte == m.end
             replacement == m.rep
             new_end_byte == start_byte + Len(replacement)
             slice == Slice(text, st.last_match, start_byte)
             start_position == calculate_end_position(st.start_position, slice)
             old_end_position ==
                 calculate_end_position(start_position,
                                        Slice(text, start_byte, old_end_byte))
             new_end_position == calculate_end_position(start_position, replacement)
         IN IF StartsInString(root, m) THEN ReplaceLoop(text, root, Tail(ms), st)
            ELSE ReplaceLoop(text, root, Tail(ms),
                     [new |-> st.new \o slice \o replacement,
                      last_match |-> old_end_byte,
                      start_position |-> old_end_position,
                      edits |-> Append(st.edits,
                                   InputEdit(start_byte, old_end_byte, new_end_byte,
                                             start_position, old_end_position,
                                             new_end_position))])

\* lines 238-243
ReplaceStart ==
    [new |-> <<>>, last_match |-> 0, start_position |-> Point(0, 0),
     edits |-> <<>>]

\* lines 288-295: the edits go to the Tree, the new Buffer is parsed with it
Rewritten(root, new, es) ==
    [content |-> new, tree |-> Reparse(new, EditAll(root, es)), edits |-> es]

\* A slip at lines 285-286: the text after the last match is left out.
ReplaceEndWithoutTail(text, root, st) ==
    Rewritten(root, st.new, st.edits)

\* lines 285-286
ReplaceEnd(text, root, st) ==
    Rewritten(root, st.new \o Slice(text, st.last_match, Len(text)), st.edits)

\* lines 234-236: nothing happens when the pattern has no match
ReplaceMatches(text, root, ms) ==
    IF ms = <<>> THEN [content |-> text, tree |-> root, edits |-> <<>>]
    ELSE ReplaceEnd(text, root, ReplaceLoop(text, root, ms, ReplaceStart))

\* Formatter::regex_replace_all_outside_strings on a Buffer and its Tree:
\* [content, tree, edits] after the pass
regex_replace_all_outside_strings(text, root, pattern) ==
    ReplaceMatches(text, root, captures_iter(pattern, text, 0))

Contains(text, c) == \E i \in 1..Len(text) : text[i] = c

\* one rewriter pass as its caller runs it: fix_dangling_semicolons returns
\* at once when the Buffer holds no semicolon (line 178)
RewriterPass(text, root, pattern) ==
    IF pattern = "semicolons" /\ ~Contains(text, ";")
    THEN [content |-> text, tree |-> root, edits |-> <<>>]
    ELSE regex_replace_all_outside_strings(text, root, pattern)

----------------------------------------------------------------------------
(* The Pipeline Orchestrator: the stages of Formatter::format, each on the *)
(* formatter fm = [content, input_tree, tree, edits].                      *)

\* Formatter::new
NewFormatter ==
    [content |-> <<>>, input_tree |-> Parse(<<>>), tree |-> Parse(<<>>),
     edits |-> <<>>]

\* A slip in lines 62-64: the text is added to what the Buffer holds.
BeginFormatAppends(fm, text) ==
    [fm EXCEPT !.content = fm.content \o text,
               !.input_tree = Parse(fm.content \o text),
               !.tree = Parse(fm.content \o text)]

\* lines 62-64
BeginFormat(fm, text) ==
    [fm EXCEPT !.content = text, !.input_tree = Parse(text), !.tree = Parse(text)]

\* A slip: the baseline shares the working tree, so edits reach it too.
WithSharedBaseline(fm, st) ==
    [fm EXCEPT !.content = st.content, !.tree = st.tree, !.edits = st.edits,
               !.input_tree = st.tree]

\* the formatter with the Buffer, the Tree and the edits of st
With(fm, st) ==
    [fm EXCEPT !.content = st.content, !.tree = st.tree, !.edits = st.edits]

\* a rewriter pass on the formatter
Pass(fm, pattern) == With(fm, RewriterPass(fm.content, fm.tree, pattern))

remove_newlines_after_extends_statement(fm) == Pass(fm, "extends")
preprocess(fm) == remove_newlines_after_extends_statement(fm)

\* lines 86-91: the Buffer becomes the text the formatting pass wrote; the
\* working tree is left as it is
process(fm, formatted) == [fm EXCEPT !.content = formatted]

fix_dangling_semicolons(fm) == Pass(fm, "semicolons")
fix_dangling_commas(fm) == Pass(fm, "commas")
remove_trailing_commas_from_preload(fm) == Pass(fm, "preload")

\* the formatter after the Spacer; panic tells that it read outside the Buffer
Spaced(fm, st) == [fm |-> With(fm, st), panic |-> st.panic]

\* lines 223-227
postprocess_tree_sitter(fm) ==
    Spaced(fm, handle_two_blank_line(fm.content, Parse(fm.content)))

RECURSIVE Reverse(_)
Reverse(text) ==
    IF text = <<>> THEN <<>> ELSE Append(Reverse(Tail(text)), Head(text))

\* the ways a call of reorder_gdscript_elements can end: with an error, with
\* the text as it was, with the text in another order
ReorderOutcomes == {"failed", "kept", "moved"}

\* what reorder_gdscript_elements returns: the reordered text, or an error
reorder_gdscript_elements(text, how) ==
    CASE how = "failed" -> [ok |-> FALSE, text |-> <<>>]
      [] how = "kept" -> [ok |-> TRUE, text |-> text]
      [] how = "moved" -> [ok |-> TRUE, text |-> Reverse(text)]

\* A slip in the match of lines 105-114: the Err arm stores its text too.
ReorderedAlways(fm, outcome) ==
    [fm EXCEPT !.content = outcome.text]

\* lines 105-114
ReorderedTo(fm, outcome) ==
    [fm EXCEPT !.content = IF outcome.ok THEN outcome.text ELSE @]

\* lines 109-113: the failure is told on stderr
ReorderWarning ==
    "Warning: Code reordering failed. Returning formatted code without reordering."

\* reorder writes the warning when it runs the pass and the pass fails
Warns(cfg, how) == cfg.reorder_code /\ how = "failed"

\* stderr after reorder
Warned(err, cfg, how) == IF Warns(cfg, how) THEN Append(err, ReorderWarning) ELSE err

\* lines 95-116
reorder(fm, cfg, how) ==
    IF ~cfg.reorder_code THEN fm
    ELSE ReorderedTo([fm EXCEPT !.tree = Reparse(fm.content, fm.tree)],
                     reorder_gdscript_elements(fm.content, how))

Ok(text) == [kind |-> "ok", text |-> text]
Err(error) == [kind |-> "err", error |-> error]

TopiaryFailed == "Topiary formatting failed"
TopiaryNotUtf8 == "Failed to parse topiary output as UTF-8"
TreesAreDifferent == "Trees are different"

\* line 146
TreesDiffer(fm) == ~compare_trees(fm.input_tree, fm.tree)

\* lines 139-144
ParsedForCheck(fm, cfg) ==
    IF cfg.safe THEN [fm EXCEPT !.tree = Reparse(fm.content, fm.tree)] ELSE fm

\* lines 146-151, on the formatter as lines 139-144 left it
Checked(parsed, cfg) ==
    IF cfg.safe /\ TreesDiffer(parsed)
    THEN [fm |-> parsed, ret |-> Err(TreesAreDifferent)]
    ELSE [fm |-> [parsed EXCEPT !.content = <<>>], ret |-> Ok(parsed.content)]

\* lines 138-152: [fm, ret], the formatter after finish and what it returns
finish(fm, cfg) == Checked(ParsedForCheck(fm, cfg), cfg)

\* lines 129-134: [fm, panic]
postprocess(fm) ==
    postprocess_tree_sitter(
        remove_trailing_commas_from_preload(
            fix_dangling_commas(fix_dangling_semicolons(fm))))

\* what the formatting pass (formatter_tree and the decoding of its output)
\* comes to: a text, or an error
Wrote(text) == [ok |-> TRUE, text |-> text, error |-> ""]
Failed(error) == [ok |-> FALSE, text |-> <<>>, error |-> error]

Panicked == [kind |-> "panic"]

\* lines 65-66 from postprocess on; st is what postprocess left
ReorderAndFinish(st, cfg, how) ==
    IF st.panic THEN [fm |-> st.fm, ret |-> Panicked]
    ELSE finish(reorder(st.fm, cfg, how), cfg)

\* lines 65-66 from process on; fm is what preprocess left
ProcessAndFinish(fm, cfg, topiary, how) ==
    IF topiary.ok
    THEN ReorderAndFinish(postprocess(process(fm, topiary.text)), cfg, how)
    ELSE [fm |-> fm, ret |-> Err(topiary.error)]

\* Formatter::format, lines 61-67, as one call: [fm, ret]
format(fm, cfg, text, topiary, how) ==
    ProcessAndFinish(preprocess(BeginFormat(fm, text)), cfg, topiary, how)

----------------------------------------------------------------------------
(* Values of the variables a specification does not use.                   *)

\* the formatter of the current state
Formatter == [content |-> content, input_tree |-> input_tree, tree |-> tree,
              edits |-> edits]

\* the formatter's fields after a step
Becomes(fm) ==
    /\ content' = fm.content
    /\ input_tree' = fm.input_tree
    /\ tree' = fm.tree
    /\ edits' = fm.edits

\* A slip in the chain of line 65: the stage after postprocess left out.
BecomesAndFinishes(st, then) ==
    /\ Becomes(st.fm)
    /\ pc' = "finish"

\* A slip in a stage: it ends in a panic whatever it read.
BecomesAndPanics(st, then) ==
    /\ Becomes(st.fm)
    /\ pc' = "panicked"

\* a stage leaves the formatter st.fm, or it has panicked
BecomesOrPanics(st, then) ==
    /\ Becomes(st.fm)
    /\ pc' = IF st.panic THEN "panicked" ELSE then

\* a call leaves the formatter st.fm and returns st.ret
Returns(st) ==
    /\ Becomes(st.fm)
    /\ result' = st.ret

NoResult == [kind |-> "none"]
NoStream == [state |-> "closed", error |-> "none"]
NoConfig == [safe |-> FALSE, reorder_code |-> FALSE]

----------------------------------------------------------------------------
(* SpecCmp: compare_trees on its own, applied to every pair of bounded     *)
(* trees.  The trees are laid out over bytes with a padding between        *)
(* sibling nodes, so that two trees of one structure differ in their byte  *)
(* ranges.                                                                 *)

CmpKinds == {"function_definition", "variable_statement"}

RECURSIVE ForestsOf(_), ShapesOf(_)
\* the sequences of shapes with n nodes in all
ForestsOf(n) ==
    IF n = 0 THEN {<<>>}
    ELSE UNION {{<<t>> \o f : t \in ShapesOf(m), f \in ForestsOf(n - m)} :
                 m \in 1..n}
\* the shapes with n nodes
ShapesOf(n) == {[kind |-> k, children |-> f] : k \in CmpKinds, f \in ForestsOf(n - 1)}

RECURSIVE Width(_, _)
Width(shape, pad) ==
    IF shape.children = <<>> THEN 1
    ELSE LET w[k \in 0..Len(shape.children)] ==
                 IF k = 0 THEN 0 ELSE w[k - 1] + pad + Width(shape.children[k], pad)
         IN w[Len(shape.children)]

\* the node of a shape laid out from byte `at` on, on one row
RECURSIVE Place(_, _, _)
Place(shape, at, pad) ==
    LET n == Len(shape.children)
        off[k \in 0..n] ==
            IF k = 0 THEN at ELSE off[k - 1] + pad + Width(shape.children[k], pad)
    IN Node(shape.kind, at, at + Width(shape, pad), Point(0, at),
            Point(0, at + Width(shape, pad)),
            [k \in 1..n |->
                Place(shape.children[k],
                      off[k] - Width(shape.children[k], pad), pad)])

CmpTrees(pad) ==
    {Place([kind |-> "source", children |-> f], 0, pad) :
        f \in UNION {ForestsOf(n) : n \in 0..(MaxCmpNodes - 1)}}

InitCmp ==
    /\ input_tree \in CmpTrees(0)
    /\ tree \in UNION {CmpTrees(pad) : pad \in 0..MaxPad}
    /\ pc = "compare"
    /\ result = NoResult
    /\ content = <<>>
    /\ config = NoConfig
    /\ input = <<>>
    /\ before = <<>>
    /\ re = "none"
    /\ edits = <<>>
    /\ conns = 0
    /\ stream = NoStream
    /\ stderr = <<>>

\* compare_trees(&self.input_tree, &self.tree)
CompareTrees ==
    /\ pc = "compare"
    /\ result' = [kind |-> "compared", equal |-> compare_trees(input_tree, tree)]
    /\ pc' = "compared"
    /\ UNCHANGED <<content, input_tree, tree, config, input, before, re, edits,
                   conns, stream, stderr>>

NextCmp == CompareTrees

SpecCmp == InitCmp /\ [][NextCmp]_vars

\* the positions both trees have
CommonPaths(l, r) == Paths(l) \cap Paths(r)

\* C8: whenever two nodes at the same position of the two trees have
\* different child counts, at any depth, compare_trees returns false.
C8_ChildCountMismatchFails ==
    pc = "compared" =>
        ((\E p \in CommonPaths(input_tree, tree) :
             child_count(NodeAt(input_tree, p)) # child_count(NodeAt(tree, p)))
         => result.equal = FALSE)

\* C9: for two trees of the same shape, compare_trees returns false whenever
\* the nodes at some same non-root position have different kinds.
C9_KindMismatchFails ==
    pc = "compared" =>
        ((/\ SameShape(input_tree, tree)
          /\ \E p \in Paths(input_tree) :
                p # <<>> /\ NodeAt(input_tree, p).kind # NodeAt(tree, p).kind)
         => result.equal = FALSE)

\* C10: compare_trees returns true for every two trees of the same shape
\* and the same kind at every position, whatever their byte ranges; so
\* also for a tree and itself.
C10_SameStructureSucceeds ==
    pc = "compared" =>
        (SameStructure(input_tree, tree) => result.equal = TRUE)

\* C10 witness: two trees of one structure, three levels deep, that differ
\* in their byte ranges have been compared and found equal.
C10_Witness ==
    /\ pc = "compared"
    /\ SameStructure(input_tree, tree)
    /\ input_tree # tree
    /\ \E p \in Paths(tree) : Len(p) = 2
    /\ result.equal = TRUE

----------------------------------------------------------------------------
(* SpecSpacer: the Declaration Spacer on its own, applied to every bounded *)
(* Buffer of declarations, comments, blanks and line breaks, with the      *)
(* Tree parsed from that Buffer.                                           *)

SpacerAlphabet == {"f", "v", "#", " ", NL}

InitSpacer ==
    /\ content \in SeqsUpTo(SpacerAlphabet, MaxSpacerLen)
    /\ tree = Parse(content)
    /\ input_tree = Parse(<<>>)
    /\ before = content
    /\ pc = "spacer"
    /\ result = NoResult
    /\ config = NoConfig
    /\ input = <<>>
    /\ re = "none"
    /\ edits = <<>>
    /\ conns = 0
    /\ stream = NoStream
    /\ stderr = <<>>

HandleTwoBlankLine ==
    /\ pc = "spacer"
    /\ BecomesOrPanics(Spaced(Formatter, handle_two_blank_line(content, tree)),
                       "spaced")
    /\ before' = content
    /\ UNCHANGED <<config, result, input, re, conns, stream, stderr>>

NextSpacer == HandleTwoBlankLine

SpecSpacer == InitSpacer /\ [][NextSpacer]_vars

\* the named top-level nodes of the tree of text t
TopLevel(t) == SelectSeq(Parse(t).children, IsNamed)

\* The pairs <<i, j>> of top-level nodes of the tree of text t that a Spacer
\* query matches as @first and @second.
SpacerPairs(t) ==
    LET cs == TopLevel(t)
        found == {x \in (1..Len(cs)) \X {1, 2} : QueryCaptures(x[2], cs, x[1]) # <<>>}
    IN {<<x[1], x[1] + Len(QueryCaptures(x[2], cs, x[1])) - 1>> : x \in found}

\* the text between top-level nodes i and j of text t
Gap(t, i, j) == Slice(t, TopLevel(t)[i].end_byte, TopLevel(t)[j].start_byte)

\* C3 as claimed: a matched pair with a single line break between its
\* declarations has exactly one blank line (two line breaks) after the Spacer.
C3_OneBlankLine ==
    pc = "spaced" =>
        \A pr \in SpacerPairs(before) :
            Gap(before, pr[1], pr[2]) = <<NL>>
                => Gap(content, pr[1], pr[2]) = <<NL, NL>>

\* C3 amended: a matched pair with a single line break between its
\* declarations has exactly two blank lines (three consecutive line breaks)
\* after the Spacer.
C3_TwoBlankLines ==
    pc = "spaced" =>
        \A pr \in SpacerPairs(before) :
            Gap(before, pr[1], pr[2]) = <<NL>>
                => Gap(content, pr[1], pr[2]) = <<NL, NL, NL>>

\* C3 witness: a Buffer with such a pair has been spaced.
C3_Witness ==
    /\ pc = "spaced"
    /\ \E pr \in SpacerPairs(before) :
          /\ Gap(before, pr[1], pr[2]) = <<NL>>
          /\ Gap(content, pr[1], pr[2]) = <<NL, NL, NL>>

\* C4 as claimed: a matched pair already separated by exactly one blank line
\* keeps exactly one blank line.
C4_OneBlankLineKept ==
    pc = "spaced" =>
        \A pr \in SpacerPairs(before) :
            Gap(before, pr[1], pr[2]) = <<NL, NL>>
                => Gap(content, pr[1], pr[2]) = <<NL, NL>>

\* C4 amended: a matched pair already separated by exactly one blank line
\* gets one more line break and ends with exactly two blank lines; whenever
\* a pair is matched the Buffer grows, so the Spacer's output is no fixed
\* point of the Spacer.
C4_SecondBlankLineAdded ==
    pc = "spaced" =>
        /\ \A pr \in SpacerPairs(before) :
              Gap(before, pr[1], pr[2]) = <<NL, NL>>
                  => Gap(content, pr[1], pr[2]) = <<NL, NL, NL>>
        /\ SpacerPairs(before) # {} => Len(content) > Len(before)

\* C4 witness: a Buffer with a pair separated by one blank line has been
\* spaced.
C4_Witness ==
    /\ pc = "spaced"
    /\ \E pr \in SpacerPairs(before) :
          /\ Gap(before, pr[1], pr[2]) = <<NL, NL>>
          /\ Gap(content, pr[1], pr[2]) = <<NL, NL, NL>>

\* top-level node i of text t is followed by a comment that starts on the
\* row node i starts on
HasTrailingComment(t, i) ==
    LET cs == TopLevel(t)
    IN /\ i + 1 <= Len(cs)
       /\ cs[i + 1].kind \in CommentKinds
       /\ cs[i + 1].start_position.row = cs[i].start_position.row

\* C5: for every match whose first declaration is followed by a comment on
\* its own line, that comment is still on the first declaration's line
\* after the Spacer, however many comments lie between the declarations.
C5_TrailingCommentStays ==
    pc = "spaced" =>
        \A pr \in SpacerPairs(before) :
            HasTrailingComment(before, pr[1]) => HasTrailingComment(content, pr[1])

\* the Spacer never reads outside the Buffer when its Tree is that of the
\* Buffer
SpacerNeverPanics == pc # "panicked"

\* the insertion points of the Spacer run that has ended, as collected from
\* the Buffer and the Tree it started from
Collected == CollectNewLines(before, Parse(before))

\* the Buffer as it stands when the Spacer applies its k-th insertion
BufferAt(k) ==
    ApplyNewLines([content |-> before, tree |-> Parse(before),
                   edits |-> <<>>, panic |-> FALSE],
                  SubSeq(SortDescending(Collected), 1, k - 1)).content

\* C22: the Spacer applies one insertion for every point it collected from
\* the unmutated Buffer and Tree, in descending order of their byte offsets,
\* and when an insertion is applied the Buffer up to and with the byte at
\* its offset is what it was when the point was collected.
C22_OffsetsStayValid ==
    pc = "spaced" =>
        /\ Len(edits) = Len(Collected)
        /\ \A k \in 1..Len(edits) :
              /\ edits[k].start_byte = SortDescending(Collected)[k].byte_idx
              /\ k > 1 => edits[k].start_byte < edits[k - 1].start_byte
              /\ SubSeq(BufferAt(k), 1, edits[k].start_byte + 1)
                     = SubSeq(before, 1, edits[k].start_byte + 1)

\* C22 witness: the Spacer has applied two insertions, the one of the first
\* match last.
C22_Witness ==
    /\ pc = "spaced"
    /\ Len(edits) >= 2
    /\ Collected[1].byte_idx = edits[Len(edits)].start_byte
    /\ BufferAt(Len(edits)) # before

\* the number of line breaks the Spacer's k-th insertion put into the Buffer
InsertedAt(k) == Len(BufferAt(k + 1)) - Len(BufferAt(k))

\* C23: every Edit Record of the Spacer has an old range of no width, the
\* row and column of its start byte in the Buffer as its start point, the
\* start byte plus the number of inserted line breaks as its new end byte,
\* and as its new end point the start point moved down by that number of
\* rows, in column 0.
C23_SpacerEditRecords ==
    pc = "spaced" =>
        \A k \in 1..Len(edits) :
            /\ edits[k].old_end_byte = edits[k].start_byte
            /\ edits[k].old_end_position = edits[k].start_position
            /\ edits[k].start_position = PointAt(BufferAt(k), edits[k].start_byte)
            /\ edits[k].new_end_byte = edits[k].start_byte + InsertedAt(k)
            /\ edits[k].new_end_position
                   = Point(edits[k].start_position.row + InsertedAt(k), 0)

\* the matches of the first query whose one comment starts on the row of
\* @first: those for which the Spacer walks back from @second
WalkMatches(t) ==
    {k \in 1..Len(QueryMatches(1, Parse(t))) :
        CommentOnFirstLine(QueryMatches(1, Parse(t))[k])}

----------------------------------------------------------------------------
(* SpecRewrite: one rewriter pass on its own, applied to every bounded     *)
(* Buffer over the bytes its pattern looks at, with the Tree parsed from   *)
(* that Buffer.                                                            *)

PatternAlphabet(pattern) ==
    CASE pattern = "extends" -> {"e", "x", "#", QUOTE, NL}
      [] pattern = "semicolons" -> {";", " ", QUOTE, NL}
      [] pattern = "commas" -> {",", " ", QUOTE, NL}
      [] pattern = "preload" -> {"p", "(", ")", ",", QUOTE}

InitRewrite ==
    /\ re \in Patterns
    /\ content \in SeqsUpTo(PatternAlphabet(re), MaxRewriteLen)
    /\ tree = Parse(content)
    /\ input_tree = Parse(<<>>)
    /\ before = content
    /\ pc = "rewrite"
    /\ result = NoResult
    /\ config = NoConfig
    /\ input = <<>>
    /\ edits = <<>>
    /\ conns = 0
    /\ stream = NoStream
    /\ stderr = <<>>

Rewrite ==
    /\ pc = "rewrite"
    /\ Becomes(Pass(Formatter, re))
    /\ before' = content
    /\ pc' = "rewritten"
    /\ UNCHANGED <<config, result, input, re, conns, stream, stderr>>

NextRewrite == Rewrite

SpecRewrite == InitRewrite /\ [][NextRewrite]_vars

\* the texts of the string nodes of a tree of text t, in document order
RECURSIVE StringsOf(_, _)
StringsOf(t, node) ==
    IF node.kind = "string" THEN <<Slice(t, node.start_byte, node.end_byte)>>
    ELSE Concat([k \in 1..Len(node.children) |-> StringsOf(t, node.children[k])])

\* C2: a postprocessing rewrite (dangling semicolons, dangling commas,
\* trailing comma of preload) leaves the bytes of every string literal of
\* the Buffer as they were, also when a match begins outside a string and
\* runs into it.
C2_StringsUntouched ==
    (pc = "rewritten" /\ re # "extends") =>
        StringsOf(content, Parse(content)) = StringsOf(before, Parse(before))

\* the match is one the pass has to leave alone: the smallest node of root
\* that covers its first byte is a string
Skipped(root, m) == descendant_for_byte_range(root, m.start).kind = "string"

\* text with the matches ms that are not skipped replaced by their expanded
\* replacements, all else as it is: the matches are spliced into the text
\* one by one from the last to the first, so that the offsets of the matches
\* still to come stay those of the unmodified text
RECURSIVE Spliced(_, _, _)
Spliced(text, root, ms) ==
    IF ms = <<>> THEN text
    ELSE Spliced(IF Skipped(root, ms[Len(ms)]) THEN text
                 ELSE Slice(text, 0, ms[Len(ms)].start) \o ms[Len(ms)].rep
                          \o Slice(text, ms[Len(ms)].end, Len(text)),
                 root, SubSeq(ms, 1, Len(ms) - 1))

\* the matches of the pass that has run, found on the Buffer it started from
MatchesBefore == captures_iter(re, before, 0)

\* C19: after a rewriter pass the Buffer is the Buffer from before the pass
\* with every match that does not start in a string replaced by its expanded
\* replacement, and with every skipped match and all other text byte for
\* byte where it was; the matches are those found on the Buffer from before
\* the pass, in source order, none overlapping another.
C19_ReplacesMatchesOutsideStrings ==
    pc = "rewritten" =>
        /\ content = Spliced(before, Parse(before), MatchesBefore)
        /\ \A i \in 1..(Len(MatchesBefore) - 1) :
              MatchesBefore[i].end <= MatchesBefore[i + 1].start

\* C19 witness: a pass has met a match it skipped and one it replaced.
C19_Witness ==
    /\ pc = "rewritten"
    /\ content # before
    /\ \E i, j \in 1..Len(MatchesBefore) :
          /\ Skipped(Parse(before), MatchesBefore[i])
          /\ ~Skipped(Parse(before), MatchesBefore[j])

\* the records of es that change the length of the text
LengthChanging(es) ==
    {i \in 1..Len(es) : es[i].new_end_byte # es[i].old_end_byte}

\* by how much the records before record i have moved what follows them
RECURSIVE ShiftBefore(_, _)
ShiftBefore(es, i) ==
    IF i <= 1 THEN 0
    ELSE ShiftBefore(es, i - 1)
             + (es[i - 1].new_end_byte - es[i - 1].old_end_byte)

\* record i, replayed after the records before it, names the bytes where the
\* span it replaced lies by then
DesignatesItsSpan(es, i) ==
    /\ es[i].start_byte = es[i].start_byte + ShiftBefore(es, i)
    /\ es[i].old_end_byte = es[i].old_end_byte + ShiftBefore(es, i)

\* the node shares no byte with a replaced span
OutsideSpans(node, es) ==
    \A i \in 1..Len(es) :
        \/ node.end_byte <= es[i].start_byte
        \/ es[i].old_end_byte <= node.start_byte

\* the Tree from before the pass with the records of the pass replayed
Replayed == EditAll(Parse(before), edits)

\* every node outside the replaced spans covers, after the replay, the text
\* in the new Buffer that it covered in the old one
NodesKeepTheirText ==
    \A path \in Paths(Parse(before)) :
        OutsideSpans(NodeAt(Parse(before), path), edits) =>
            Slice(content, NodeAt(Replayed, path).start_byte,
                           NodeAt(Replayed, path).end_byte)
                = Slice(before, NodeAt(Parse(before), path).start_byte,
                                NodeAt(Parse(before), path).end_byte)

\* C20: after a rewriter pass with two or more length-changing
\* replacements, every Edit Record names, at the time it is replayed, the
\* span it replaced, and after the replay every node outside the replaced
\* spans covers the same text in the new Buffer.
C20_ReplayReflectsBuffer ==
    (pc = "rewritten" /\ Cardinality(LengthChanging(edits)) >= 2) =>
        /\ \A i \in 1..Len(edits) : DesignatesItsSpan(edits, i)
        /\ NodesKeepTheirText

\* the matches the pass replaced, in source order
ReplacedMatches ==
    SelectSeq(MatchesBefore, LAMBDA m : ~Skipped(Parse(before), m))

\* the point reached from pt over the text t: one row down and column 0 at
\* each line feed, one column on at every other byte
AdvancedOver(pt, t) ==
    IF \A k \in 1..Len(t) : t[k] # NL
    THEN Point(pt.row, pt.column + Len(t))
    ELSE Point(pt.row + Cardinality({k \in 1..Len(t) : t[k] = NL}),
               Len(t) - Maximum({k \in 1..Len(t) : t[k] = NL}))

\* C21: the Edit Records of a rewriter pass are those of the matches it
\* replaced, in order; the start point and the old end point of each are the
\* row and column of its start byte and old end byte in the Buffer from
\* before the pass, and its new end point is the point reached from the
\* start point over the replacement text; whatever the matches before it
\* were replaced with, and however many were skipped.
C21_EditPointsAreAccurate ==
    pc = "rewritten" =>
        /\ Len(edits) = Len(ReplacedMatches)
        /\ \A i \in 1..Len(edits) :
              /\ edits[i].start_byte = ReplacedMatches[i].start
              /\ edits[i].old_end_byte = ReplacedMatches[i].end
              /\ edits[i].start_position = PointAt(before, edits[i].start_byte)
              /\ edits[i].old_end_position
                     = PointAt(before, edits[i].old_end_byte)
              /\ edits[i].new_end_byte
                     = edits[i].start_byte + Len(ReplacedMatches[i].rep)
              /\ edits[i].new_end_position
                     = AdvancedOver(edits[i].start_position,
                                    ReplacedMatches[i].rep)

\* C21 witness: a record made after a replacement that changed the length,
\* for a match on a later row that does not start in column 0.
C21_Witness ==
    /\ pc = "rewritten"
    /\ Len(edits) >= 2
    /\ 1 \in LengthChanging(edits)
    /\ edits[Len(edits)].start_position.row > 0
    /\ edits[Len(edits)].start_position.column > 0

----------------------------------------------------------------------------
(* Spec: one request through Formatter::format, stage by stage, on a new   *)
(* Formatter (format_gdscript_with_config), for every configuration,       *)
(* every bounded input and every result of the formatting pass and of the  *)
(* reorder pass.                                                           *)

\* the texts of at most n lines, each a line of set ls and its line break
RECURSIVE TextsOfLines(_, _)
TextsOfLines(ls, n) ==
    IF n = 0 THEN {<<>>}
    ELSE {<<>>} \cup {l \o <<NL>> \o t : l \in ls, t \in TextsOfLines(ls, n - 1)}

\* the texts handed to Formatter::format
InputTexts ==
    TextsOfLines({<<"f">>, <<"v">>, <<"e", "x">>, <<>>}, MaxInputLines)

\* the texts the formatting pass writes
FormattedTexts ==
    TextsOfLines({<<"f">>, <<"v", ";">>, <<"v", QUOTE, ";", QUOTE>>, <<" ", ",">>,
                  <<"p", "(", "x", ",", ")">>, <<>>}, MaxFormattedLines)

Configs == [safe : BOOLEAN, reorder_code : BOOLEAN]

Init ==
    /\ config \in Configs
    /\ content = NewFormatter.content
    /\ input_tree = NewFormatter.input_tree
    /\ tree = NewFormatter.tree
    /\ edits = NewFormatter.edits
    /\ pc = "new"
    /\ result = NoResult
    /\ input = <<>>
    /\ before = <<>>
    /\ re = "none"
    /\ conns = 0
    /\ stream = NoStream
    /\ stderr = <<>>

\* Formatter::format is called: lines 62-64
Format ==
    /\ pc = "new"
    /\ \E text \in InputTexts :
          /\ input' = text
          /\ Becomes(BeginFormat(Formatter, text))
    /\ before' = content
    /\ pc' = "preprocess"
    /\ UNCHANGED <<config, result, re, conns, stream, stderr>>

Preprocess ==
    /\ pc = "preprocess"
    /\ Becomes(preprocess(Formatter))
    /\ before' = content
    /\ re' = "extends"
    /\ pc' = "process"
    /\ UNCHANGED <<config, result, input, conns, stream, stderr>>

\* the formatting pass returns a text
ProcessOk ==
    /\ pc = "process"
    /\ \E formatted \in FormattedTexts : Becomes(process(Formatter, formatted))
    /\ before' = content
    /\ pc' = "semicolons"
    /\ UNCHANGED <<config, result, input, re, conns, stream, stderr>>

\* the formatting pass fails, or writes bytes that are no UTF-8: format
\* returns the error (the `?` of line 65)
ProcessFails ==
    /\ pc = "process"
    /\ \E error \in {TopiaryFailed, TopiaryNotUtf8} : result' = Err(error)
    /\ before' = content
    /\ pc' = "returned"
    /\ UNCHANGED <<content, input_tree, tree, edits,
                   config, input, re, conns, stream, stderr>>

FixDanglingSemicolons ==
    /\ pc = "semicolons"
    /\ Becomes(fix_dangling_semicolons(Formatter))
    /\ before' = content
    /\ re' = "semicolons"
    /\ pc' = "commas"
    /\ UNCHANGED <<config, result, input, conns, stream, stderr>>

FixDanglingCommas ==
    /\ pc = "commas"
    /\ Becomes(fix_dangling_commas(Formatter))
    /\ before' = content
    /\ re' = "commas"
    /\ pc' = "preload"
    /\ UNCHANGED <<config, result, input, conns, stream, stderr>>

RemoveTrailingCommasFromPreload ==
    /\ pc = "preload"
    /\ Becomes(remove_trailing_commas_from_preload(Formatter))
    /\ before' = content
    /\ re' = "preload"
    /\ pc' = "tree_sitter"
    /\ UNCHANGED <<config, result, input, conns, stream, stderr>>

PostprocessTreeSitter ==
    /\ pc = "tree_sitter"
    /\ BecomesOrPanics(postprocess_tree_sitter(Formatter), "reorder")
    /\ before' = content
    /\ UNCHANGED <<config, result, input, re, conns, stream, stderr>>

Reorder ==
    /\ pc = "reorder"
    /\ \E how \in ReorderOutcomes :
          /\ Becomes(reorder(Formatter, config, how))
          /\ stderr' = Warned(stderr, config, how)
    /\ before' = content
    /\ pc' = "finish"
    /\ UNCHANGED <<config, result, input, re, conns, stream>>

Finish ==
    /\ pc = "finish"
    /\ Returns(finish(Formatter, config))
    /\ before' = content
    /\ pc' = "returned"
    /\ UNCHANGED <<config, input, re, conns, stream, stderr>>

Next ==
    \/ Format
    \/ Preprocess
    \/ ProcessOk
    \/ ProcessFails
    \/ FixDanglingSemicolons
    \/ FixDanglingCommas
    \/ RemoveTrailingCommasFromPreload
    \/ PostprocessTreeSitter
    \/ Reorder
    \/ Finish

Spec == Init /\ [][Next]_vars

\* C1: in safe mode, when format returns text, the tree parsed from that
\* text has the shape and the kinds of the baseline tree parsed from the
\* input; otherwise format returns an error and no text.
C1_SafeModeKeepsStructure ==
    (pc = "returned" /\ config.safe) =>
        \/ /\ result.kind = "ok"
           /\ SameStructure(Parse(input), Parse(result.text))
        \/ result.kind = "err"

\* the pattern of the rewriter pass that runs next, "none" when the next
\* stage is no rewriter pass
NextPattern ==
    CASE pc = "preprocess" -> "extends"
      [] pc = "semicolons" -> "semicolons"
      [] pc = "commas" -> "commas"
      [] pc = "preload" -> "preload"
      [] OTHER -> "none"

\* the next stage is a rewriter pass that looks up a node in the working
\* Tree: its pattern has a match in the Buffer
LooksUpNode ==
    /\ NextPattern # "none"
    /\ captures_iter(NextPattern, content, 0) # <<>>

\* C11: whenever a rewriter pass is about to look up the node at a match in
\* the working Tree, the working Tree is the tree of the current Buffer; so
\* it is after the formatting pass has replaced the Buffer.
C11_TreeMatchesBuffer ==
    LooksUpNode => tree = Parse(content)

\* the stages of a request, in the order of lines 62-66
StageOrder ==
    <<"new", "preprocess", "process", "semicolons", "commas", "preload",
      "tree_sitter", "reorder", "finish", "returned">>

Rank(stage) == CHOOSE i \in 1..Len(StageOrder) : StageOrder[i] = stage

\* the pattern a rewriter stage runs
PatternOf(stage) ==
    CASE stage = "preprocess" -> "extends"
      [] stage = "semicolons" -> "semicolons"
      [] stage = "commas" -> "commas"
      [] stage = "preload" -> "preload"

FormattingErrors == {Err(TopiaryFailed), Err(TopiaryNotUtf8)}

\* C13: a failing formatting pass ends the request with a formatting error
\* and no text; in safe mode a Buffer whose tree differs in structure from
\* the baseline tree ends the request with the error "Trees are different"
\* and no text, and that error is none of the formatting errors.
C13_FailuresAreErrors ==
    [][/\ (pc = "process" /\ result' # result) =>
              /\ result' \in FormattingErrors
              /\ pc' = "returned"
       /\ (/\ pc = "finish"
           /\ config.safe
           /\ ~SameStructure(input_tree, Parse(content))) =>
              /\ result' = Err(TreesAreDifferent)
              /\ result' \notin FormattingErrors
              /\ pc' = "returned"]_vars

C18_ReorderExcludesSafetyCheck ==
    (pc = "finish" /\ config.reorder_code) => ~config.safe

\* C24: once a request has parsed its input, no stage changes the baseline
\* tree: it stays the tree parsed from the input, and that tree is what the
\* safety check of finish compares the tree of the final Buffer with.
C24_BaselineTreeKept ==
    [][/\ pc # "new" => input_tree' = input_tree /\ input' = input
       /\ input_tree' = Parse(input')
       /\ (pc = "finish" /\ config.safe) =>
              (result'.kind = "ok"
                  <=> compare_trees(Parse(input), Parse(content)))]_vars

\* C24 witness: a request in safe mode has returned text after stages that
\* changed the working tree.
C24_Witness ==
    /\ pc = "returned"
    /\ config.safe
    /\ result.kind = "ok"
    /\ input # <<>>
    /\ tree # input_tree
    /\ edits # <<>>

\* Formatter::format runs on the caller's thread, one stage after the other,
\* with nothing to cancel it: while the request has neither returned nor
\* panicked the thread goes on to another stage (the formatting pass and the
\* reorder pass are taken to return).  Which stage, and in which state, is
\* what Next says.
Runs ==
    /\ pc \notin {"returned", "panicked"}
    /\ pc' \in {StageOrder[i] : i \in 1..Len(StageOrder)} \cup {"panicked"}

SpecLive == Spec /\ WF_pc(Runs)

----------------------------------------------------------------------------
(* SpecDaemon: daemon_main.  One connection at a time goes through the     *)
(* body of the loop; the formatter is made once, before the loop, and      *)
(* serves every connection.  A request is [kind, payload]: what the client *)
(* sends is well-formed ("ok"), or stops inside the length prefix          *)
(* ("short_prefix"), or stops inside the payload ("short_payload"), or is  *)
(* a payload that is no UTF-8 ("bad_utf8").                                *)

Requests ==
    [kind : {"ok", "short_prefix", "short_payload", "bad_utf8"},
     payload : TextsOfLines({<<"f">>, <<"v">>}, MaxRequestLines)]

\* what the formatting pass comes to for a request
TopiaryResults ==
    {Failed(TopiaryFailed), Failed(TopiaryNotUtf8)} \cup
    {Wrote(t) : t \in TextsOfLines({<<"f">>, <<"v", ";">>}, MaxRequestLines)}

\* `as u32`: the low 32 bits, as two 16-bit halves
U32(n) == (((n \div (2 ^ 16)) % (2 ^ 16)) * (2 ^ 16)) + (n % (2 ^ 16))

NoResponse == [length |-> -1, payload |-> <<>>]

\* lines 303-306: the packet of a text
Packet(text) == [length |-> U32(Len(text)), payload |-> text]

\* the connection of line 288
Connection(request) ==
    [state |-> "open", request |-> request, error |-> "none",
     response |-> NoResponse]

InitDaemon ==
    /\ config \in Configs
    /\ content = NewFormatter.content
    /\ input_tree = NewFormatter.input_tree
    /\ tree = NewFormatter.tree
    /\ edits = NewFormatter.edits
    /\ pc = "accept"
    /\ result = NoResult
    /\ input = <<>>
    /\ before = <<>>
    /\ re = "none"
    /\ conns = 0
    /\ stream = NoStream
    /\ stderr = <<>>

\* line 288
Accept ==
    /\ pc = "accept"
    /\ conns < MaxConns
    /\ conns' = conns + 1
    /\ \E request \in Requests : stream' = Connection(request)
    /\ result' = NoResult
    /\ pc' = "read_length"
    /\ UNCHANGED <<content, input_tree, tree, edits,
                   config, input, before, re, stderr>>

\* the `?` of a read or of the decoding: daemon_main returns the error
TransportFails ==
    /\ stream' = [stream EXCEPT !.state = "closed", !.error = "transport"]
    /\ pc' = "exited"

\* lines 290-293
ReadLength ==
    /\ pc = "read_length"
    /\ IF stream.request.kind = "short_prefix"
       THEN TransportFails
       ELSE pc' = "read_payload" /\ UNCHANGED stream
    /\ UNCHANGED <<content, input_tree, tree, edits, config, result, input,
                   before, re, conns, stderr>>

\* lines 295-296
ReadPayload ==
    /\ pc = "read_payload"
    /\ IF stream.request.kind = "short_payload"
       THEN TransportFails
       ELSE pc' = "decode" /\ UNCHANGED stream
    /\ UNCHANGED <<content, input_tree, tree, edits, config, result, input,
                   before, re, conns, stderr>>

\* line 298
Decode ==
    /\ pc = "decode"
    /\ IF stream.request.kind = "bad_utf8"
       THEN TransportFails /\ UNCHANGED input
       ELSE /\ pc' = "format"
            /\ input' = stream.request.payload
            /\ UNCHANGED stream
    /\ UNCHANGED <<content, input_tree, tree, edits, config, result, before,
                   re, conns, stderr>>

\* A slip after line 300: the loop goes on at once, whatever format returned.
AfterFormatAccepts(ret) == "accept"

\* where daemon_main goes after the call of line 300 returned ret
AfterFormat(ret) ==
    CASE ret.kind = "ok" -> "respond"
      [] ret.kind = "err" -> "exited"
      [] ret.kind = "panic" -> "panicked"

\* the connection after the call of line 300 returned ret
StreamAfterFormat(ret) ==
    IF ret.kind = "ok" THEN stream
    ELSE [stream EXCEPT !.state = "closed", !.error = "format"]

FormatReturns(st) ==
    /\ Returns(st)
    /\ pc' = AfterFormat(st.ret)
    /\ stream' = StreamAfterFormat(st.ret)

\* line 300: the whole of Formatter::format; what it returns is dropped
DaemonFormat ==
    /\ pc = "format"
    /\ \E topiary \in TopiaryResults, how \in ReorderOutcomes :
          /\ FormatReturns(format(Formatter, config, input, topiary, how))
          /\ stderr' = IF topiary.ok THEN Warned(stderr, config, how) ELSE stderr
    /\ before' = content
    /\ UNCHANGED <<config, input, re, conns>>

\* lines 301-307 after finish returned: the packet is written and the loop
\* goes on, or the `?` of line 301 returns the error
Responds(st) ==
    /\ Becomes(st.fm)
    /\ IF st.ret.kind = "ok"
       THEN /\ stream' = [stream EXCEPT !.state = "answered",
                                        !.response = Packet(st.ret.text)]
            /\ pc' = "accept"
       ELSE /\ stream' = [stream EXCEPT !.state = "closed", !.error = "finish"]
            /\ pc' = "exited"

\* lines 301-307
Respond ==
    /\ pc = "respond"
    /\ Responds(finish(Formatter, config))
    /\ before' = content
    /\ UNCHANGED <<config, result, input, re, conns, stderr>>

NextDaemon ==
    \/ Accept
    \/ ReadLength
    \/ ReadPayload
    \/ Decode
    \/ DaemonFormat
    \/ Respond

SpecDaemon == InitDaemon /\ [][NextDaemon]_vars

\* C6: when the daemon has answered a well-formed request whose formatting
\* succeeded, the payload of the response is the text Formatter::format
\* returned for the request's payload and the prefix is that text's length.
C6_ResponseIsFormattedText ==
    (stream.state = "answered" /\ result.kind = "ok") =>
        /\ stream.response.payload = result.text
        /\ stream.response.length = Len(result.text)

\* C7: a transport failure on a connection (a short read of the prefix or of
\* the payload, a payload that is no UTF-8) leaves the daemon in its loop.
C7_TransportFailureKeepsServing ==
    stream.error = "transport" => pc # "exited"

\* the daemon is done with the connection it accepted last
Handled == conns > 0 /\ pc \in {"accept", "exited"}

----------------------------------------------------------------------------
(* SpecReuse: one Formatter that a caller of the library keeps and hands    *)
(* one text after the other, as daemon_main does with its formatter; a     *)
(* call of Formatter::format is one step.  Requests may fail, and a failed  *)
(* request leaves its text in the Buffer.                                   *)

\* the texts handed to the reused Formatter
ReuseTexts == TextsOfLines({<<"f">>, <<"v">>}, MaxRequestLines)

InitReuse ==
    /\ config \in Configs
    /\ content = NewFormatter.content
    /\ input_tree = NewFormatter.input_tree
    /\ tree = NewFormatter.tree
    /\ edits = NewFormatter.edits
    /\ pc = "idle"
    /\ result = NoResult
    /\ input = <<>>
    /\ before = <<>>
    /\ re = "none"
    /\ conns = 0
    /\ stream = NoStream
    /\ stderr = <<>>

\* formatter.format(text), lines 61-67
FormatCall ==
    /\ Len(stderr) < MaxWarnings
    /\ \E text \in ReuseTexts, topiary \in TopiaryResults, how \in ReorderOutcomes :
          /\ input' = text
          /\ Returns(format(Formatter, config, text, topiary, how))
          /\ stderr' = IF topiary.ok THEN Warned(stderr, config, how) ELSE stderr
    /\ before' = content
    /\ UNCHANGED <<config, pc, re, conns, stream>>

NextReuse == FormatCall

SpecReuse == InitReuse /\ [][NextReuse]_vars

\* C15: when format has returned text the Buffer is empty, and whatever
\* the requests before have left in the instance, the next call of format
\* returns what a Formatter fresh from Formatter::new with the same
\* configuration returns for the same text (the formatting pass and the
\* reorder pass coming to the same in both).
C15_UsedInstanceAsFresh ==
    /\ result.kind = "ok" => content = <<>>
    /\ \A text \in ReuseTexts, topiary \in TopiaryResults, how \in ReorderOutcomes :
          format(Formatter, config, text, topiary, how).ret
              = format(NewFormatter, config, text, topiary, how).ret

\* C15 witness: a request has failed in the safety check and has left its
\* text in the Buffer and its trees in the instance.
C15_Witness ==
    /\ result = Err(TreesAreDifferent)
    /\ content # <<>>
    /\ tree # NewFormatter.tree
    /\ tree # input_tree

----------------------------------------------------------------------------
(* SpecFrame: the framing of one request and its response, client_main on  *)
(* one side and daemon_main on the other.  A payload is stood for by its   *)
(* byte count.  A count is a usize and may pass 2^32, so it is kept as     *)
(* three 16-bit limbs <<low, middle, high>>; a u32 is the two lower limbs. *)

Limb == 2 ^ 16

\* the limbs tried; with them the counts around 0, 2^16, 2^32 - 4 and 2^32
Limbs == {0, 1, Limb - 5, Limb - 4, Limb - 1}

\* the byte counts of the payloads
PayloadLengths == {<<l0, l1, l2>> : l0 \in Limbs, l1 \in Limbs, l2 \in 0..MaxHighLimb}

\* `len() as u32`, lines 303 and 315: the high limb is dropped
AsU32(n) == <<n[1], n[2]>>

\* `as usize`, lines 295, 304, 316 and 325
AsUsize(u) == <<u[1], u[2], 0>>

\* u32 + k for a small k: [value, overflow]
AddU32(u, k) ==
    [value |-> <<(u[1] + k) % Limb, (u[2] + ((u[1] + k) \div Limb)) % Limb>>,
     overflow |-> u[2] + ((u[1] + k) \div Limb) >= Limb]

\* u32::to_le_bytes
to_le_bytes(u) == <<u[1] % 256, u[1] \div 256, u[2] % 256, u[2] \div 256>>

\* u32::from_le_bytes
from_le_bytes(b) == <<b[1] + (256 * b[2]), b[3] + (256 * b[4])>>

NoPacket == [prefix |-> <<>>, payload |-> <<0, 0, 0>>]

\* lines 303-307 and 315-319 for a text of n bytes: the prefix and the count
\* of the bytes written after it.  `content_length + 4` is a u32 addition:
\* with overflow checks (debug builds) it panics when it overflows, without
\* them it wraps, and the capacity is no more than a hint.
Written(n, checks) ==
    IF checks /\ AddU32(AsU32(n), 4).overflow
    THEN [panic |-> TRUE, packet |-> NoPacket]
    ELSE [panic |-> FALSE,
          packet |-> [prefix |-> to_le_bytes(AsU32(n)), payload |-> n]]

\* lines 290-296 and 321-326: the count of the payload bytes read
ReadCount(packet) == AsUsize(from_le_bytes(packet.prefix))

InitFrame ==
    /\ pc = "client_write"
    /\ stream = [request |-> NoPacket, consumed |-> <<0, 0, 0>>,
                 response |-> NoPacket, produced |-> <<0, 0, 0>>]
    /\ config = NoConfig
    /\ content = <<>>
    /\ input_tree = Parse(<<>>)
    /\ tree = Parse(<<>>)
    /\ edits = <<>>
    /\ result = NoResult
    /\ input = <<>>
    /\ before = <<>>
    /\ re = "none"
    /\ conns = 0
    /\ stderr = <<>>

\* a packet is written, or the writer panics
Writes(field, st, then) ==
    /\ stream' = [stream EXCEPT ![field] = st.packet]
    /\ pc' = IF st.panic THEN "panicked" ELSE then

\* client_main, lines 315-319
ClientWrites ==
    /\ pc = "client_write"
    /\ \E n \in PayloadLengths, checks \in BOOLEAN :
          Writes("request", Written(n, checks), "daemon_read")
    /\ UNCHANGED <<content, input_tree, tree, config, result, input, before,
                   re, edits, conns, stderr>>

\* daemon_main, lines 290-296
DaemonReads ==
    /\ pc = "daemon_read"
    /\ stream' = [stream EXCEPT !.consumed = ReadCount(stream.request)]
    /\ pc' = "daemon_write"
    /\ UNCHANGED <<content, input_tree, tree, config, result, input, before,
                   re, edits, conns, stderr>>

\* daemon_main, lines 303-307, for a result of m bytes
DaemonWrites ==
    /\ pc = "daemon_write"
    /\ \E m \in PayloadLengths, checks \in BOOLEAN :
          Writes("response", Written(m, checks), "client_read")
    /\ UNCHANGED <<content, input_tree, tree, config, result, input, before,
                   re, edits, conns, stderr>>

\* client_main, lines 321-326
ClientReads ==
    /\ pc = "client_read"
    /\ stream' = [stream EXCEPT !.produced = ReadCount(stream.response)]
    /\ pc' = "done"
    /\ UNCHANGED <<content, input_tree, tree, config, result, input, before,
                   re, edits, conns, stderr>>

NextFrame ==
    \/ ClientWrites
    \/ DaemonReads
    \/ DaemonWrites
    \/ ClientReads

SpecFrame == InitFrame /\ [][NextFrame]_vars

\* C16: every request and every response is written (no writer panics on
\* the capacity), its prefix read as a little-endian u32 is the count of
\* the payload bytes written after it, and the reader takes that many
\* payload bytes; this for every payload length.
C16_PrefixIsPayloadLength ==
    /\ pc # "panicked"
    /\ pc \in {"daemon_read", "daemon_write", "client_read", "done"} =>
          ReadCount(stream.request) = stream.request.payload
    /\ pc \in {"daemon_write", "client_read", "done"} =>
          stream.consumed = stream.request.payload
    /\ pc \in {"client_read", "done"} =>
          ReadCount(stream.response) = stream.response.payload
    /\ pc = "done" => stream.produced = stream.response.payload

=============================================================================
